---- MODULE Spec2Model ----
(***************************************************************************)
(* A model of eg-error-handling: the acme::socket resource wrapper          *)
(* (src/acme/socket.h, socket.cpp) and the UDP dispatch program of          *)
(* src/main.cpp (parse_command_line, create_socket, run, parse_message,     *)
(* deserialize, process_message).                                           *)
(*                                                                          *)
(* The specifications share the variables:                                  *)
(*   Spec        the whole program, main() from its first statement on;     *)
(*   SpecCmd     parse_command_line over a large set of command lines;      *)
(*   SpecSocket  arbitrary sequences of acme::socket operations;            *)
(*   SpecCalls   arbitrary bind and read calls on one socket object;        *)
(*   SpecLeak    the whole program, remembering its first loop iteration.   *)
(***************************************************************************)
EXTENDS Integers, Sequences, FiniteSets, TLC

VARIABLES
  pc,        \* where main() is: "main", "create_socket", "run", "awaiting",
             \* "exit" (main returned), "terminated" (std::terminate);
             \* "socket_ops" in SpecSocket
  argv,      \* the command line, argv[0] included; a string is a sequence of characters
  config,    \* std::optional<config> of main
  status,    \* main's return value, -1 while it has not returned
  errno,     \* the C library's errno
  socks,     \* each socket object: its lifetime and its fd member
  os,        \* the operating system's side: descriptor table, close calls, bound descriptors
  breach,    \* TRUE once an ACME_ASSERT condition was false (undefined behaviour)
  packet,    \* the datagram the last read received (its bytes on the wire)
  message,   \* std::optional<message> of the last loop iteration
  out,       \* the lines the last step wrote to stdout
  diag,      \* the diagnostic lines the last step wrote to stderr
  stderr,    \* the tags of the lines written to stderr so far
  nreads,    \* the number of socket::read calls so far
  unsanitized, \* what the last socket::read returned: std::optional of the bytes
  lastop,    \* SpecSocket: whether the last operation was a destructor, and of what
  movedFrom, \* SpecSocket: for each object, how it was last moved from, if it was
  buffer,    \* run's buffer as the last socket::read left it; <<>> before the loop
  asserted,  \* the ACME_ASSERT conditions the last step evaluated, and their values
  lastcall,  \* SpecCalls: the last bind or read call, what it met and what it returned
  first      \* SpecLeak: the input and the outcome of the first loop iteration

vars == <<pc, argv, config, status, errno, socks, os, breach, packet, message,
          out, diag, stderr, nreads, unsanitized, lastop, movedFrom,
          buffer, asserted, lastcall, first>>

----------------------------------------------------------------------------
(* Bounds of the model *)

\* longest command-line argument enumerated character by character
MaxArgLen == 5
\* largest argc enumerated
MaxArgc == 3
\* longest datagram on the wire
MaxWireLen == 3
\* the count of socket::read calls saturates at this number
MaxReads == 2
\* number of distinct non-zero errno values a failing system call may set
NumErrno == 1
\* number of descriptors the operating system can hand out
NumFds == 2
\* number of socket objects in SpecSocket
NumInst == 3

----------------------------------------------------------------------------
(* Program constants *)

uninitialized == -1
expected_size == 1
max_buffer_size == 2
\* sizeof(payload): one std::int8_t
destination_size == 1
\* std::numeric_limits<in_port_t>::max()
PortMax == 65535
EXIT_FAILURE == 1
\* the lowest descriptor ::socket can return: 0, 1 and 2 are the standard streams
FirstFd == 3
None == [has |-> FALSE, val |-> 0]
Some(v) == [has |-> TRUE, val |-> v]

----------------------------------------------------------------------------
(* acme::log and its wrappers: one line "<tag>: <message>" on stderr *)

Line(tag, fmt, nums, text) == [tag |-> tag, fmt |-> fmt, nums |-> nums, text |-> text]
info(fmt, nums, text) == Line("info", fmt, nums, text)
warn(fmt, nums, text) == Line("warning", fmt, nums, text)
error(fmt, nums, text) == Line("error", fmt, nums, text)

Tags(lines) == {lines[k].tag : k \in 1..Len(lines)}

----------------------------------------------------------------------------
(* parse_command_line, main.cpp:53-78 *)

DigitChars == <<"0", "1", "2", "3", "4", "5", "6", "7", "8", "9">>
IsDigit(c) == \E d \in 1..10 : DigitChars[d] = c
DigitVal(c) == (CHOOSE d \in 1..10 : DigitChars[d] = c) - 1

\* number of leading characters of s that are decimal digits
RECURSIVE DigitCount(_)
DigitCount(s) ==
  IF s = <<>> \/ ~IsDigit(Head(s)) THEN 0 ELSE 1 + DigitCount(Tail(s))

\* the value of a string of digits
RECURSIVE DecValue(_)
DecValue(s) ==
  IF s = <<>> THEN 0 ELSE DecValue(SubSeq(s, 1, Len(s) - 1)) * 10 + DigitVal(s[Len(s)])

\* a from_chars that wraps around instead of reporting result_out_of_range
from_chars_wrap(s) ==
  LET n == DigitCount(s) IN
  IF n = 0 THEN [ec |-> "invalid_argument", ptr |-> 0, value |-> 0]
  ELSE [ec |-> "ok", ptr |-> n, value |-> DecValue(SubSeq(s, 1, n)) % (PortMax + 1)]

\* std::from_chars(first, last, in_port_t&): base 10, no sign and no white space
\* accepted for an unsigned type; ptr is the number of characters consumed
from_chars(s) ==
  LET n == DigitCount(s)
      v == DecValue(SubSeq(s, 1, n))
  IN IF n = 0 THEN [ec |-> "invalid_argument", ptr |-> 0, value |-> 0]
     ELSE IF v > PortMax THEN [ec |-> "result_out_of_range", ptr |-> n, value |-> 0]
     ELSE [ec |-> "ok", ptr |-> n, value |-> v]

\* args.size() - 1 in std::size_t arithmetic. A std::size_t is represented by
\* its residue nearest to zero, so the wrapped 0 - 1 = SIZE_MAX reads -1;
\* equality of two sizes is equality of their residues.
ActualSize(args) == Len(args) - 1

\* the result: the optional<config> and the lines logged
parse_command_line(args) ==
  IF ActualSize(args) # expected_size
  THEN [ret |-> None,
        log |-> <<error("expected {} command-line parameters; got {}",
                        <<expected_size, ActualSize(args)>>, <<>>)>>]
  ELSE LET port_string == args[2]
           r == from_chars(port_string)
       IN IF r.ec # "ok" \/ r.ptr # Len(port_string)
          THEN [ret |-> None,
                log |-> <<error("failed to parse '{}' as port number.", <<>>, port_string)>>]
          ELSE [ret |-> Some(r.value), log |-> <<>>]

----------------------------------------------------------------------------
(* deserialize, parse_message, process_message: main.cpp:85-141, 172-183 *)

\* a std::byte reinterpreted as std::int8_t (memcpy into payload::number)
Int8(b) == IF b >= 128 THEN b - 256 ELSE b

\* a deserialize that accepts any packet that is long enough
deserialize_atleast(bytes) ==
  IF Len(bytes) < destination_size
  THEN [ret |-> None,
        log |-> <<warn("invalid packet size. expected={}; actual={}",
                       <<destination_size, Len(bytes)>>, <<>>)>>]
  ELSE [ret |-> Some(Int8(bytes[1])), log |-> <<>>]

\* a deserialize whose warning gives the two sizes in the other order
deserialize_swapped(bytes) ==
  LET packet_size == Len(bytes) IN
  IF packet_size # destination_size
  THEN [ret |-> None,
        log |-> <<warn("invalid packet size. expected={}; actual={}",
                       <<packet_size, destination_size>>, <<>>)>>]
  ELSE [ret |-> Some(Int8(bytes[1])), log |-> <<>>]

\* deserialize<payload>: the payload's number, iff the packet has its size
deserialize(bytes) ==
  LET packet_size == Len(bytes) IN
  IF packet_size # destination_size
  THEN [ret |-> None,
        log |-> <<warn("invalid packet size. expected={}; actual={}",
                       <<destination_size, packet_size>>, <<>>)>>]
  ELSE [ret |-> Some(Int8(bytes[1])), log |-> <<>>]

\* enum class animal { chicken, cow, horse, zebra }: underlying type int
chicken == 0
cow == 1
horse == 2
zebra == 3

\* a parse_message that checks the discriminant against zebra only
parse_message_upto(network_packet) ==
  LET p == deserialize(network_packet) IN
  IF ~p.ret.has THEN [ret |-> None, log |-> p.log]
  ELSE LET a == p.ret.val IN
       IF a <= zebra
       THEN [ret |-> Some(a), log |-> <<>>]
       ELSE [ret |-> None, log |-> <<warn("invalid packet contents, {}", <<a>>, <<>>)>>]

\* a parse_message that makes a message of every discriminant
parse_message_unchecked(network_packet) ==
  LET p == deserialize(network_packet) IN
  IF ~p.ret.has THEN [ret |-> None, log |-> p.log]
  ELSE [ret |-> Some(p.ret.val), log |-> <<>>]

\* a parse_message that drops an invalid discriminant without a warning
parse_message_quiet(network_packet) ==
  LET p == deserialize(network_packet) IN
  IF ~p.ret.has THEN [ret |-> None, log |-> p.log]
  ELSE LET a == p.ret.val IN
       IF a \in {zebra, chicken, cow, horse}
       THEN [ret |-> Some(a), log |-> <<>>]
       ELSE [ret |-> None, log |-> <<>>]

parse_message(network_packet) ==
  LET p == deserialize(network_packet) IN
  IF ~p.ret.has THEN [ret |-> None, log |-> p.log]
  ELSE LET a == p.ret.val IN
       IF a \in {zebra, chicken, cow, horse}
       THEN [ret |-> Some(a), log |-> <<>>]
       ELSE [ret |-> None, log |-> <<warn("invalid packet contents, {}", <<a>>, <<>>)>>]

animals == <<"chicken", "cow", "horse", "zebra">>

\* the result: the lines printed on stdout, and whether the ACME_ASSERT held.
\* An index outside the array is undefined behaviour: no line is defined.
process_message(m) ==
  LET ok == m \in {chicken, cow, horse, zebra} IN
  [out |-> IF ok THEN <<animals[m + 1]>> ELSE <<>>, asserted |-> ok]

----------------------------------------------------------------------------
(* The operating system: ::socket, ::close, ::bind, ::read                  *)
(* os.fdtab[fd] is the handle open under descriptor fd (0: none), handles   *)
(* being numbered in the order ::socket created them; os.closes[h] counts   *)
(* the ::close calls that released handle h; os.badClose counts the ::close *)
(* calls on a descriptor that was not open; os.bound is the set of bound    *)
(* descriptors.                                                             *)

Fds == FirstFd..(FirstFd + NumFds - 1)
ErrCodes == 1..NumErrno
EBADF == 1

Min(S) == CHOOSE x \in S : \A y \in S : x <= y
Minimum(a, b) == IF a < b THEN a ELSE b

FreeFds(o) == {f \in Fds : o.fdtab[f] = 0}

\* the results ::socket can have: 0 for success, else the errno it sets
SocketResults(o) == IF FreeFds(o) = {} THEN ErrCodes ELSE {0} \cup ErrCodes

\* a world is the part of the state a socket operation reads and writes; every
\* step starts with no ACME_ASSERT evaluated
World == [socks |-> socks, os |-> os, errno |-> errno, breach |-> breach, asserted |-> {}]

\* ACME_ASSERT(condition) in function `at`; `what` names the condition
Check(at, what, held) == [at |-> at, what |-> what, held |-> held]

sys_socket(w, res) ==
  IF res = 0
  THEN LET fd == Min(FreeFds(w.os)) IN
       [w |-> [w EXCEPT !.os.fdtab[fd] = Len(w.os.closes) + 1,
                        !.os.closes = Append(w.os.closes, 0)],
        ret |-> fd]
  ELSE [w |-> [w EXCEPT !.errno = res], ret |-> -1]

sys_close(w, fd) ==
  IF fd \in Fds /\ w.os.fdtab[fd] # 0
  THEN [w |-> [w EXCEPT !.os.fdtab[fd] = 0,
                        !.os.closes[w.os.fdtab[fd]] = @ + 1,
                        !.os.bound = @ \ {fd}],
        ret |-> 0]
  ELSE [w |-> [w EXCEPT !.os.badClose = @ + 1, !.errno = EBADF], ret |-> -1]

sys_bind(w, fd, res) ==
  IF ~(fd \in Fds /\ w.os.fdtab[fd] # 0)
  THEN [w |-> [w EXCEPT !.errno = EBADF], ret |-> -1]
  ELSE IF res = 0
  THEN [w |-> [w EXCEPT !.os.bound = @ \cup {fd}], ret |-> 0]
  ELSE [w |-> [w EXCEPT !.errno = res], ret |-> -1]

\* what a read meets: a datagram on the wire, or a transport error
Arrival(d) == [ok |-> TRUE, data |-> d, err |-> 0]
Failure(e) == [ok |-> FALSE, data |-> <<>>, err |-> e]

\* ::read on a datagram socket: the first bytes of the datagram that fit, the
\* rest of it is dropped. The result: the byte count and the buffer written.
sys_read(w, fd, buf, input) ==
  IF ~(fd \in Fds /\ w.os.fdtab[fd] # 0)
  THEN [w |-> [w EXCEPT !.errno = EBADF], size |-> -1, buffer |-> buf]
  ELSE IF ~input.ok
  THEN [w |-> [w EXCEPT !.errno = input.err], size |-> -1, buffer |-> buf]
  ELSE LET n == Minimum(Len(input.data), Len(buf)) IN
       [w |-> w, size |-> n,
        buffer |-> [k \in 1..Len(buf) |->
                      IF k <= n THEN input.data[k] ELSE buf[k]]]

----------------------------------------------------------------------------
(* acme::socket, socket.h:41-69 and socket.cpp:24-97 *)

Unborn == [life |-> "unborn", fd |-> uninitialized]
Live(fd) == [life |-> "live", fd |-> fd]
\* after its destructor an object has no members any more
Dead == [life |-> "dead", fd |-> uninitialized]

\* socket::open
socket_open(w, i) == w.socks[i].fd # uninitialized

\* socket() noexcept = default
socket_default(w, i) == [w EXCEPT !.socks[i] = Live(uninitialized)]

\* socket(domain, type, protocol)
socket_ctor(w, i, res) ==
  LET r == sys_socket(w, res) IN [r.w EXCEPT !.socks[i] = Live(r.ret)]

\* a move that copies the handle and leaves it in the source as well
socket_swap_copy(w, i, j) ==
  [w EXCEPT !.socks[i].fd = w.socks[j].fd]

\* std::swap(fd, other.fd) of the two move operations
socket_swap(w, i, j) ==
  [w EXCEPT !.socks[i].fd = w.socks[j].fd, !.socks[j].fd = w.socks[i].fd]

\* socket(socket&& other): the new object i starts from fd{uninitialized}
socket_move_ctor(w, i, other) ==
  socket_swap([w EXCEPT !.socks[i] = Live(uninitialized)], i, other)

\* operator=(socket&& other)
socket_move_assign(w, i, other) == socket_swap(w, i, other)

\* a destructor that never releases the handle
socket_dtor_leak(w, i, proceed) == [w EXCEPT !.socks[i] = Dead]

\* a destructor that closes whatever fd holds
socket_dtor_always(w, i, proceed) ==
  LET r == sys_close(w, w.socks[i].fd) IN
  [r.w EXCEPT !.socks[i] = Dead]

\* ~socket. A false ACME_ASSERT is undefined behaviour: `proceed` is whether
\* the build goes on to ::close after ACME_ASSERT(!errno) was false.
socket_dtor(w, i, proceed) ==
  LET dead == [w EXCEPT !.socks[i] = Dead] IN
  IF ~socket_open(w, i) THEN dead
  ELSE IF w.errno # 0 /\ ~proceed
  THEN [dead EXCEPT !.breach = TRUE,
                    !.asserted = @ \cup {Check("~socket", "!errno", FALSE)}]
  ELSE LET r == sys_close(dead, w.socks[i].fd) IN
       [r.w EXCEPT !.breach = w.breach \/ w.errno # 0 \/ r.ret # 0,
                   !.asserted = @ \cup {Check("~socket", "!errno", w.errno = 0),
                                        Check("~socket", "result == 0", r.ret = 0)}]

\* socket::bind: the result is true iff ::bind returned 0
socket_bind(w, i, port_number, res) ==
  LET r == sys_bind(w, w.socks[i].fd, res) IN
  [w |-> [r.w EXCEPT !.breach = w.breach \/ ~socket_open(w, i) \/ w.errno # 0,
                     !.asserted = @ \cup {Check("bind", "open()", socket_open(w, i)),
                                          Check("bind", "!errno", w.errno = 0)}],
   ret |-> r.ret = 0]

\* a socket::read that reports an empty datagram as a failure
socket_read_nonempty(w, i, buf, input) ==
  LET r == sys_read(w, w.socks[i].fd, buf, input) IN
  [w |-> [r.w EXCEPT !.breach = w.breach \/ ~socket_open(w, i) \/ w.errno # 0,
                     !.asserted = @ \cup {Check("read", "open()", socket_open(w, i)),
                                          Check("read", "!errno", w.errno = 0)}],
   ret |-> IF r.size <= 0 THEN None ELSE Some(SubSeq(r.buffer, 1, r.size)),
   buffer |-> r.buffer]

\* socket::read: the packet received, or as much as fits in buffer; none on error
socket_read(w, i, buf, input) ==
  LET r == sys_read(w, w.socks[i].fd, buf, input) IN
  [w |-> [r.w EXCEPT !.breach = w.breach \/ ~socket_open(w, i) \/ w.errno # 0,
                     !.asserted = @ \cup {Check("read", "open()", socket_open(w, i)),
                                          Check("read", "!errno", w.errno = 0)}],
   ret |-> IF r.size = -1 THEN None ELSE Some(SubSeq(r.buffer, 1, r.size)),
   buffer |-> r.buffer]

----------------------------------------------------------------------------
(* create_socket, main.cpp:146-168. The objects of the program: "local" is  *)
(* create_socket's udp_socket, "opt" the socket held by the optional it     *)
(* returns (main's udp_socket), "param" the parameter of run.               *)

\* a create_socket that returns the socket whether or not bind succeeded
create_socket_ignore_bind(w, cfg, sres, bres, proceed) ==
  LET w1 == socket_ctor(w, "local", sres) IN
  IF ~socket_open(w1, "local")
  THEN [w |-> socket_dtor([w1 EXCEPT !.errno = 0], "local", proceed),
        has |-> FALSE,
        log |-> <<error("failed to create socket: {}", <<w1.errno>>, <<>>)>>]
  ELSE LET b == socket_bind(w1, "local", cfg, bres) IN
       [w |-> socket_dtor(socket_move_ctor([b.w EXCEPT !.errno = 0], "opt", "local"),
                          "local", proceed),
        has |-> TRUE,
        log |-> <<>>]

\* a create_socket that reports a failed bind and leaves errno as bind set it
create_socket_keep_errno(w, cfg, sres, bres, proceed) ==
  LET w1 == socket_ctor(w, "local", sres) IN
  IF ~socket_open(w1, "local")
  THEN [w |-> socket_dtor([w1 EXCEPT !.errno = 0], "local", proceed),
        has |-> FALSE,
        log |-> <<error("failed to create socket: {}", <<w1.errno>>, <<>>)>>]
  ELSE LET b == socket_bind(w1, "local", cfg, bres) IN
       IF ~b.ret
       THEN [w |-> socket_dtor(b.w, "local", proceed),
             has |-> FALSE,
             log |-> <<error("failed to bind socket on port {}: {}",
                             <<cfg, b.w.errno>>, <<>>)>>]
       ELSE [w |-> socket_dtor(socket_move_ctor(b.w, "opt", "local"), "local", proceed),
             has |-> TRUE,
             log |-> <<>>]

\* a create_socket that binds without looking at open() first
create_socket_unchecked(w, cfg, sres, bres, proceed) ==
  LET w1 == socket_ctor(w, "local", sres)
      b == socket_bind([w1 EXCEPT !.errno = 0], "local", cfg, bres) IN
  IF ~b.ret
  THEN [w |-> socket_dtor([b.w EXCEPT !.errno = 0], "local", proceed),
        has |-> FALSE,
        log |-> <<error("failed to bind socket on port {}: {}",
                        <<cfg, b.w.errno>>, <<>>)>>]
  ELSE [w |-> socket_dtor(socket_move_ctor(b.w, "opt", "local"), "local", proceed),
        has |-> TRUE,
        log |-> <<>>]

\* sres and bres are the results of ::socket and ::bind; every return path ends
\* with the destructor of the local udp_socket
create_socket(w, cfg, sres, bres, proceed) ==
  LET w1 == socket_ctor(w, "local", sres) IN
  IF ~socket_open(w1, "local")
  THEN [w |-> socket_dtor([w1 EXCEPT !.errno = 0], "local", proceed),
        has |-> FALSE,
        log |-> <<error("failed to create socket: {}", <<w1.errno>>, <<>>)>>]
  ELSE LET b == socket_bind(w1, "local", cfg, bres) IN
       IF ~b.ret
       THEN [w |-> socket_dtor([b.w EXCEPT !.errno = 0], "local", proceed),
             has |-> FALSE,
             log |-> <<error("failed to bind socket on port {}: {}",
                             <<cfg, b.w.errno>>, <<>>)>>]
       ELSE [w |-> socket_dtor(socket_move_ctor(b.w, "opt", "local"), "local", proceed),
             has |-> TRUE,
             log |-> <<>>]

----------------------------------------------------------------------------
(* The inputs *)

Prog == <<"p">>
Alphabet == {"0", "3", "5", "6", "x", "-", "+"}

RECURSIVE ToDecimal(_)
ToDecimal(n) ==
  IF n < 10 THEN <<DigitChars[n + 1]>>
  ELSE ToDecimal(n \div 10) \o <<DigitChars[(n % 10) + 1]>>

SampleArgs == {<<"8", "0", "8", "0">>, <<"6", "5", "5", "3", "6">>, <<"8", "0", "x">>, <<>>}

\* command lines of every length up to MaxArgc, argv[0] included
ArgcLines == {<<>>} \cup UNION {{<<Prog>> \o t : t \in [1..n -> SampleArgs]} : n \in 0..(MaxArgc - 1)}
\* one argument: every string over Alphabet up to MaxArgLen
StringLines == UNION {{Prog} \X [1..n -> Alphabet] : n \in 0..MaxArgLen}
\* one argument: the decimal string of every port
PortLines == {<<Prog, ToDecimal(p)>> : p \in 0..PortMax}

SampleBytes == {0, 255}
Datagrams ==
  {<<>>} \cup {<<b>> : b \in 0..255}
         \cup UNION {[1..n -> SampleBytes] : n \in 2..MaxWireLen}
Inputs == {Arrival(d) : d \in Datagrams} \cup {Failure(e) : e \in ErrCodes}

----------------------------------------------------------------------------
(* main, main.cpp:217-232, and run, main.cpp:187-214 *)

NotMoved == [how |-> "none", dstWasOpen |-> FALSE]
NoPacket == [has |-> FALSE, val |-> <<>>]
NoOp == [op |-> "none", wasOpen |-> FALSE, moved |-> NotMoved, closeCalls |-> 0]
NoCall == [op |-> "none", ok |-> FALSE, errnoBefore |-> 0, fdBefore |-> uninitialized,
           arrived |-> FALSE, data |-> <<>>, capacity |-> 0, ret |-> NoPacket]
NoFirst == [set |-> FALSE, mixed |-> FALSE,
            input |-> [data |-> <<>>, read |-> NoPacket, err |-> 0],
            outcome |-> [out |-> <<>>, diag |-> <<>>, message |-> None, pc |-> "",
                         breach |-> FALSE]]
OsInit == [fdtab |-> [f \in Fds |-> 0], closes |-> <<>>, badClose |-> 0, bound |-> {}]

InitCommon ==
  /\ config = None
  /\ status = -1
  /\ errno = 0
  /\ os = OsInit
  /\ breach = FALSE
  /\ packet = <<>>
  /\ message = None
  /\ out = <<>>
  /\ diag = <<>>
  /\ stderr = {}
  /\ nreads = 0
  /\ unsanitized = NoPacket
  /\ lastop = NoOp
  /\ buffer = <<>>
  /\ asserted = {}
  /\ lastcall = NoCall
  /\ first = NoFirst

Init ==
  /\ pc = "main"
  /\ argv \in ArgcLines
  /\ socks = [i \in {"local", "opt", "param"} |-> Unborn]
  /\ movedFrom = [i \in {"local", "opt", "param"} |-> NotMoved]
  /\ InitCommon

SetWorld(w) ==
  /\ socks' = w.socks
  /\ os' = w.os
  /\ errno' = w.errno
  /\ breach' = w.breach
  /\ asserted' = w.asserted

Emit(lines) ==
  /\ diag' = lines
  /\ stderr' = stderr \cup Tags(lines)

\* main.cpp:220-223
MainParse ==
  /\ pc = "main"
  /\ LET r == parse_command_line(argv) IN
       /\ config' = r.ret
       /\ Emit(r.log)
       /\ IF r.ret.has
          THEN pc' = "create_socket" /\ status' = status
          ELSE pc' = "exit" /\ status' = EXIT_FAILURE
  /\ out' = <<>>
  /\ asserted' = {}
  /\ UNCHANGED <<argv, errno, socks, os, breach, packet, message, nreads,
                 unsanitized, lastop, movedFrom, buffer, lastcall, first>>

\* main.cpp:225-228
MainCreateSocket ==
  /\ pc = "create_socket"
  /\ \E sres \in SocketResults(os), bres \in {0} \cup ErrCodes, proceed \in BOOLEAN :
       LET r == create_socket(World, config.val, sres, bres, proceed) IN
         /\ SetWorld(r.w)
         /\ Emit(r.log)
         /\ IF r.has
            THEN pc' = "run" /\ status' = status
            ELSE pc' = "exit" /\ status' = EXIT_FAILURE
  /\ out' = <<>>
  /\ UNCHANGED <<argv, config, packet, message, nreads, unsanitized, lastop, movedFrom,
                 buffer, lastcall, first>>

\* main.cpp:231 and 187-189: the parameter is move-constructed, run logs its entry
MainRun ==
  /\ pc = "run"
  /\ SetWorld(socket_move_ctor(World, "param", "opt"))
  /\ Emit(<<info("entering main loop", <<>>, <<>>)>>)
  /\ pc' = "awaiting"
  /\ out' = <<>>
  /\ UNCHANGED <<argv, config, status, packet, message, nreads, unsanitized,
                 lastop, movedFrom, buffer, lastcall, first>>

\* a buffer of the payload's size
NewBuffer_exact == [k \in 1..destination_size |-> 0]

\* std::array<std::byte, max_buffer_size> buffer{}: zero-initialised, main.cpp:193
NewBuffer == [k \in 1..max_buffer_size |-> 0]

\* one iteration of the while (true) of run, main.cpp:191-213, on an input of
\* `inputs`; onFatal is where a failed read leads, onReject where a rejected
\* packet leads
RunIterationOn(inputs, onFatal, onReject) ==
  /\ pc = "awaiting"
  /\ \E input \in inputs :
       LET r == socket_read(World, "param", NewBuffer, input)
       IN /\ packet' = input.data
          /\ nreads' = Minimum(nreads + 1, MaxReads)
          /\ unsanitized' = IF r.ret.has THEN r.ret ELSE NoPacket
          /\ buffer' = r.buffer
          /\ IF ~r.ret.has
             THEN /\ SetWorld(r.w)
                  /\ Emit(<<error("failed to read udp packet: {}", <<r.w.errno>>, <<>>)>>)
                  /\ message' = None
                  /\ out' = <<>>
                  /\ pc' = onFatal
             ELSE LET m == parse_message(r.ret.val) IN
                  /\ message' = m.ret
                  /\ Emit(m.log)
                  /\ IF ~m.ret.has
                     THEN /\ out' = <<>>
                          /\ SetWorld(r.w)
                          /\ pc' = onReject
                     ELSE LET p == process_message(m.ret.val) IN
                          /\ out' = p.out
                          /\ SetWorld([r.w EXCEPT
                               !.breach = @ \/ ~p.asserted,
                               !.asserted = @ \cup {Check("process_message", "m.a is an animal",
                                                          p.asserted)}])
                          /\ pc' = "awaiting"
  /\ UNCHANGED <<argv, config, status, lastop, movedFrom, lastcall>>

\* the loop of the program, on every input
RunIterationWith(onFatal, onReject) ==
  RunIterationOn(Inputs, onFatal, onReject) /\ UNCHANGED first

\* a loop that goes on to the next read after a failed read
RunIteration_retry == RunIterationWith("awaiting", "awaiting")

\* a loop that treats a rejected packet as fatal
RunIteration_fatal == RunIterationWith("terminated", "terminated")

\* read failure: std::terminate (main.cpp:202); rejected packet: continue (main.cpp:209)
RunIteration == RunIterationWith("terminated", "awaiting")

Next == MainParse \/ MainCreateSocket \/ MainRun \/ RunIteration

Spec == Init /\ [][Next]_vars

----------------------------------------------------------------------------
(* SpecCmd: parse_command_line on every command line of the input sets *)

InitCmd ==
  /\ pc = "main"
  /\ argv \in PortLines \cup StringLines \cup ArgcLines
  /\ socks = [i \in {"local", "opt", "param"} |-> Unborn]
  /\ movedFrom = [i \in {"local", "opt", "param"} |-> NotMoved]
  /\ InitCommon

SpecCmd == InitCmd /\ [][MainParse]_vars

----------------------------------------------------------------------------
(* SpecSocket: a caller that constructs, moves and destroys NumInst socket  *)
(* objects in any order, and resets errno as create_socket does.            *)

Inst == 1..NumInst

CloseCalls(o) ==
  LET RECURSIVE Sum(_)
      Sum(q) == IF q = <<>> THEN 0 ELSE Head(q) + Sum(Tail(q))
  IN Sum(o.closes) + o.badClose

\* the record of a destructor call on object i that led to world w
Destroyed(i, w) ==
  [op |-> "dtor", wasOpen |-> socket_open(World, i), moved |-> movedFrom[i],
   closeCalls |-> CloseCalls(w.os) - CloseCalls(os)]

InitSocket ==
  /\ pc = "socket_ops"
  /\ argv = <<>>
  /\ socks = [i \in Inst |-> Unborn]
  /\ movedFrom = [i \in Inst |-> NotMoved]
  /\ InitCommon

Idle == UNCHANGED <<pc, argv, config, status, packet, message, out, diag, stderr,
                    nreads, unsanitized, buffer, lastcall, first>>

\* acme::socket s;
SockDefault ==
  \E i \in Inst :
    /\ socks[i].life = "unborn"
    /\ LET w == socket_default(World, i) IN
         SetWorld(w) /\ lastop' = NoOp
    /\ UNCHANGED movedFrom
    /\ Idle

\* acme::socket s(domain, type);
SockOpen ==
  \E i \in Inst, res \in SocketResults(os) :
    /\ socks[i].life = "unborn"
    /\ LET w == socket_ctor(World, i, res) IN
         SetWorld(w) /\ lastop' = NoOp
    /\ UNCHANGED movedFrom
    /\ Idle

\* acme::socket s(std::move(other));
SockMoveCtor ==
  \E i \in Inst, other \in Inst :
    /\ socks[i].life = "unborn"
    /\ socks[other].life = "live"
    /\ LET w == socket_move_ctor(World, i, other) IN
         SetWorld(w) /\ lastop' = NoOp
    /\ movedFrom' = [movedFrom EXCEPT ![other] = [how |-> "construct", dstWasOpen |-> FALSE]]
    /\ Idle

\* s = std::move(other); s and other may be the same object
SockMoveAssign ==
  \E i \in Inst, other \in Inst :
    /\ socks[i].life = "live"
    /\ socks[other].life = "live"
    /\ LET w == socket_move_assign(World, i, other) IN
         SetWorld(w) /\ lastop' = NoOp
    /\ movedFrom' = [k \in Inst |->
                       IF k = other
                       THEN [how |-> IF i = other THEN "self_assign" ELSE "assign",
                             dstWasOpen |-> socket_open(World, i)]
                       ELSE IF k = i THEN NotMoved ELSE movedFrom[k]]
    /\ Idle

\* the end of the object's lifetime
SockDtor ==
  \E i \in Inst, proceed \in BOOLEAN :
    /\ socks[i].life = "live"
    /\ LET w == socket_dtor(World, i, proceed) IN
         SetWorld(w) /\ lastop' = Destroyed(i, w)
    /\ movedFrom' = [movedFrom EXCEPT ![i] = NotMoved]
    /\ Idle

\* errno = 0; as after each reported failure, main.cpp:152 and 160
CallerResetErrno ==
  /\ errno # 0
  /\ errno' = 0
  /\ lastop' = NoOp
  /\ asserted' = {}
  /\ UNCHANGED <<socks, os, breach, movedFrom>>
  /\ Idle

NextSocket ==
  SockDefault \/ SockOpen \/ SockMoveCtor \/ SockMoveAssign \/ SockDtor \/ CallerResetErrno

SpecSocket == InitSocket /\ [][NextSocket]_vars

----------------------------------------------------------------------------
(* SpecCalls: a caller that constructs one socket object and then calls     *)
(* bind and read on it in any order and in any state, open or not, errno    *)
(* clear or not, resetting errno when it likes.                             *)

MaxCapacity == 3

\* the datagrams and failures a read of SpecCalls can meet
CallInputs ==
  {Arrival(d) : d \in UNION {[1..n -> SampleBytes] : n \in 0..MaxWireLen}}
    \cup {Failure(e) : e \in ErrCodes}

InitCalls ==
  /\ pc = "socket_calls"
  /\ argv = <<>>
  /\ socks = [i \in {"s"} |-> Unborn]
  /\ movedFrom = [i \in {"s"} |-> NotMoved]
  /\ InitCommon

\* acme::socket s; or acme::socket s(domain, type);
CallConstruct ==
  /\ socks["s"].life = "unborn"
  /\ \/ SetWorld(socket_default(World, "s"))
     \/ \E res \in SocketResults(os) : SetWorld(socket_ctor(World, "s", res))
  /\ lastcall' = NoCall
  /\ UNCHANGED <<lastop, movedFrom>>
  /\ UNCHANGED <<pc, argv, config, status, packet, message, out, diag, stderr,
                 nreads, unsanitized, buffer, first>>

\* s.bind(port)
CallBind ==
  /\ socks["s"].life = "live"
  /\ \E res \in {0} \cup ErrCodes :
       LET r == socket_bind(World, "s", 0, res) IN
         /\ SetWorld(r.w)
         /\ lastcall' = [NoCall EXCEPT !.op = "bind", !.ok = r.ret,
                                       !.errnoBefore = errno, !.fdBefore = socks["s"].fd]
  /\ UNCHANGED <<lastop, movedFrom>>
  /\ UNCHANGED <<pc, argv, config, status, packet, message, out, diag, stderr,
                 nreads, unsanitized, buffer, first>>

\* s.read(buffer), for a buffer of any capacity and any contents
CallRead ==
  /\ socks["s"].life = "live"
  /\ \E input \in CallInputs, capacity \in 1..MaxCapacity, fill \in SampleBytes :
       LET r == socket_read(World, "s", [k \in 1..capacity |-> fill], input) IN
         /\ SetWorld(r.w)
         /\ buffer' = r.buffer
         /\ lastcall' = [op |-> "read", ok |-> r.ret.has,
                         errnoBefore |-> errno, fdBefore |-> socks["s"].fd,
                         arrived |-> input.ok, data |-> input.data, capacity |-> capacity,
                         ret |-> IF r.ret.has THEN r.ret ELSE NoPacket]
  /\ UNCHANGED <<lastop, movedFrom>>
  /\ UNCHANGED <<pc, argv, config, status, packet, message, out, diag, stderr,
                 nreads, unsanitized, first>>

\* errno = 0;
CallResetErrno ==
  /\ errno # 0
  /\ errno' = 0
  /\ asserted' = {}
  /\ lastcall' = NoCall
  /\ UNCHANGED <<socks, os, breach, lastop, movedFrom>>
  /\ UNCHANGED <<pc, argv, config, status, packet, message, out, diag, stderr,
                 nreads, unsanitized, buffer, first>>

NextCalls == CallConstruct \/ CallBind \/ CallRead \/ CallResetErrno

SpecCalls == InitCalls /\ [][NextCalls]_vars

----------------------------------------------------------------------------
(* SpecLeak: the program of Spec on a sample of inputs, remembering the     *)
(* input and the outcome of the first iteration of the loop of run.         *)

LeakInputs ==
  {Arrival(d) : d \in {<<>>, <<0>>, <<1>>, <<3>>, <<4>>, <<128>>, <<255>>,
                       <<0, 0>>, <<0, 255, 0>>}}
    \cup {Failure(e) : e \in ErrCodes}

\* what an iteration was given: the datagram and what the read returned
ThisInput == [data |-> packet, read |-> unsanitized,
              err |-> IF unsanitized.has THEN 0 ELSE errno]

\* what an iteration did: stdout, diagnostics, message, continue or terminate,
\* and whether it left defined behaviour
Outcome == [out |-> out, diag |-> diag, message |-> message, pc |-> pc, breach |-> breach]

\* a loop that goes on to the next read after a failed read
LeakStep_retry == RunIterationOn(LeakInputs, "awaiting", "awaiting")

\* one iteration of the loop of run, main.cpp:191-213
LeakStep == RunIterationOn(LeakInputs, "terminated", "awaiting")

LeakIteration ==
  /\ LeakStep
  /\ first' = IF ~first.set
              THEN [set |-> TRUE, mixed |-> FALSE, input |-> ThisInput', outcome |-> Outcome']
              ELSE [first EXCEPT !.mixed = @ \/ ThisInput' # first.input]

NextLeak == MainParse \/ MainCreateSocket \/ MainRun \/ LeakIteration

SpecLeak == Init /\ [][NextLeak]_vars

----------------------------------------------------------------------------
(* The claims *)

\* the value of a byte read as a signed 8-bit integer
Signed8(b) == ((b + 128) % 256) - 128

\* the last step was a loop iteration whose read returned a packet
Received == nreads > 0 /\ unsanitized.has

SizeFmt == "invalid packet size. expected={}; actual={}"
ContentsFmt == "invalid packet contents, {}"
ReadFmt == "failed to read udp packet: {}"
ArgcFmt == "expected {} command-line parameters; got {}"
PortFmt == "failed to parse '{}' as port number."
SocketFmt == "failed to create socket: {}"
BindFmt == "failed to bind socket on port {}: {}"

\* C1: after a loop iteration that received a datagram of exactly one byte of
\* signed value v: if v is 0, 1, 2 or 3 then stdout got exactly the line
\* chicken, cow, horse or zebra, and no diagnostic was emitted; otherwise
\* stdout got nothing, there is no message, and exactly one warning was
\* emitted, which carries v.
C1_SingleByte ==
  (Received /\ Len(packet) = 1) =>
    LET v == Signed8(packet[1]) IN
    /\ pc = "awaiting"
    /\ v = 0 => out = <<"chicken">> /\ diag = <<>> /\ message.has
    /\ v = 1 => out = <<"cow">> /\ diag = <<>> /\ message.has
    /\ v = 2 => out = <<"horse">> /\ diag = <<>> /\ message.has
    /\ v = 3 => out = <<"zebra">> /\ diag = <<>> /\ message.has
    /\ v \notin {0, 1, 2, 3} =>
         /\ out = <<>>
         /\ ~message.has
         /\ diag = <<[tag |-> "warning", fmt |-> ContentsFmt, nums |-> <<v>>, text |-> <<>>]>>

\* C1's case: the byte 0x80, the negative value -128, was rejected with a warning
C1_Witness ==
  /\ Received /\ packet = <<128>>
  /\ out = <<>> /\ Len(diag) = 1 /\ diag[1].nums = <<-128>>

\* C2: after a loop iteration that received a datagram whose length on the wire
\* is not 1 (0, 2, or more than the buffer holds, which the read cuts to the
\* buffer's capacity), there is no message, stdout got nothing, exactly one
\* wrong-size warning was emitted, and the loop is awaiting the next datagram.
C2_WrongSize ==
  (Received /\ Len(packet) # 1) =>
    /\ Len(unsanitized.val) = IF Len(packet) > max_buffer_size
                              THEN max_buffer_size ELSE Len(packet)
    /\ ~message.has
    /\ out = <<>>
    /\ Len(diag) = 1 /\ diag[1].tag = "warning" /\ diag[1].fmt = SizeFmt
    /\ pc = "awaiting"

\* C2's case: a datagram longer than the buffer was cut and rejected
C2_Witness ==
  /\ Received /\ Len(packet) > max_buffer_size
  /\ Len(unsanitized.val) = max_buffer_size /\ ~message.has /\ Len(diag) = 1

\* the last step was a loop iteration whose read returned none
ReadFailed == nreads > 0 /\ ~unsanitized.has

\* C3: when a read returns none, the iteration emits exactly one "error" line
\* and the process is terminated; from then on nothing happens any more: no
\* read, no parse_message, no process_message, no iteration.
C3_ReadFailureIsFatal ==
  /\ [](ReadFailed =>
          /\ pc = "terminated"
          /\ Len(diag) = 1 /\ diag[1].tag = "error" /\ diag[1].fmt = ReadFmt
          /\ out = <<>> /\ ~message.has)
  /\ [][ReadFailed => UNCHANGED vars]_vars

\* C3's case: the second read of a run failed and the process was terminated
C3_Witness == ReadFailed /\ pc = "terminated" /\ nreads = 2

\* C4: the only step that leaves the "awaiting datagram" state is an iteration
\* whose read failed; after a rejected packet and after a processed message the
\* loop is awaiting again, and there another iteration (another read) can start.
C4_LoopNeverExitsOnRecoverable ==
  /\ [][pc = "awaiting" => (pc' = "awaiting" \/ (pc' = "terminated" /\ ~unsanitized'.has))]_vars
  /\ [](Received => pc = "awaiting")
  /\ [](pc = "awaiting" => ENABLED RunIteration)

\* C4's case: the loop is awaiting again after a rejected packet
C4_Witness == Received /\ ~message.has /\ pc = "awaiting" /\ nreads = 2

\* the object was the source of a move and has not been a destination since
MovedFrom(j) == movedFrom[j].how # "none"

\* C5 as stated, for a move from one object to another: after a move
\* construction or a move assignment, whatever the state of the destination,
\* the moved-from object reports open() == false and its destruction performs
\* no ::close call.
C5_AsStated ==
  /\ \A j \in DOMAIN socks :
       (socks[j].life = "live" /\ movedFrom[j].how \in {"construct", "assign"})
          => socks[j].fd = uninitialized
  /\ (lastop.op = "dtor" /\ lastop.moved.how \in {"construct", "assign"})
        => lastop.closeCalls = 0

\* C5 amended: after a move construction, and after a move assignment whose
\* destination was not open, the moved-from object reports open() == false and
\* its destruction performs no ::close call; after a move assignment into an
\* open destination (the object itself included) the moved-from object holds
\* the destination's former handle and reports open() == true.
C5_MovedFromUnlessSwapped ==
  /\ \A j \in DOMAIN socks :
       (socks[j].life = "live" /\ MovedFrom(j)) =>
          (socks[j].fd = uninitialized <=> ~movedFrom[j].dstWasOpen)
  /\ (lastop.op = "dtor" /\ lastop.moved.how # "none" /\ ~lastop.moved.dstWasOpen)
        => lastop.closeCalls = 0 /\ ~lastop.wasOpen
  /\ (lastop.op = "dtor" /\ lastop.moved.dstWasOpen) => lastop.wasOpen

\* C5's case: an open object was move-constructed from and then destroyed
\* without a ::close call
C5_Witness ==
  /\ lastop.op = "dtor" /\ lastop.closeCalls = 0
  /\ lastop.moved.how = "construct"
  /\ \E i \in DOMAIN socks : socks[i].life = "live" /\ socks[i].fd # uninitialized

\* C6: in every state reached without a failed ACME_ASSERT (a contract breach
\* is undefined behaviour): no two live socket objects hold the same handle
\* other than the sentinel; a destructor calls ::close once if the object is
\* open and not at all if it is not; no ::close call hits a descriptor that is
\* not open and every handle is closed at most once; and once no object is
\* alive, every handle ::socket returned has been closed exactly once.
C6_ExclusiveOwnership ==
  ~breach =>
    /\ \A i, j \in DOMAIN socks :
         (i # j /\ socks[i].life = "live" /\ socks[j].life = "live"
            /\ socks[i].fd = socks[j].fd) => socks[i].fd = uninitialized
    /\ lastop.op = "dtor" => lastop.closeCalls = IF lastop.wasOpen THEN 1 ELSE 0
    /\ os.badClose = 0
    /\ \A h \in 1..Len(os.closes) : os.closes[h] <= 1
    /\ (\A i \in DOMAIN socks : socks[i].life # "live") =>
         \A h \in 1..Len(os.closes) : os.closes[h] = 1

\* C6's case: every object has been destroyed, a descriptor having been used for
\* two handles, the last one an object that a move assignment had swapped with
C6_Witness ==
  /\ ~breach
  /\ \A i \in DOMAIN socks : socks[i].life = "dead"
  /\ Len(os.closes) > NumFds
  /\ lastop.op = "dtor" /\ lastop.moved.dstWasOpen /\ lastop.closeCalls = 1

\* C7 as stated: on every path by which the program ends after the handle was
\* acquired (bind failure, fatal read failure), the handle has been released
\* exactly once by the socket destructor's ::close.
C7_AsStated ==
  (pc \in {"exit", "terminated"} /\ os.closes # <<>>) =>
    os.closes = <<1>> /\ os.badClose = 0

\* C7 amended: when main returns after a bind failure, the handle has been
\* released exactly once by the destructor of create_socket's local socket;
\* on the fatal read-failure path std::terminate ends the process without
\* running any socket destructor: ::close has not been called, and the
\* parameter of run still holds the open handle.
C7_ReleasedUnlessTerminated ==
  /\ (pc = "exit" /\ os.closes # <<>>) =>
       /\ os.closes = <<1>> /\ os.badClose = 0
       /\ socks["local"].life = "dead"
  /\ pc = "terminated" =>
       /\ os.closes = <<0>> /\ os.badClose = 0
       /\ socks["param"].life = "live"
       /\ os.fdtab[socks["param"].fd] = 1

\* C7's case: the process was terminated with the handle never closed
C7_Witness == pc = "terminated" /\ os.closes = <<0>> /\ socks["opt"].life = "live"

\* C8: every failed or rejected path emits exactly one diagnostic line: an
\* "error" line for a wrong argument count, an unparseable port, a failed
\* socket creation, a failed bind and a failed read, a "warning" line for a
\* wrong-size datagram and for an out-of-range discriminant.
C8_OneDiagnosticPerFailure ==
  /\ pc = "exit" =>
       /\ Len(diag) = 1 /\ diag[1].tag = "error"
       /\ Len(argv) # 2 => diag[1].fmt = ArgcFmt
       /\ (Len(argv) = 2 /\ ~config.has) => diag[1].fmt = PortFmt
       /\ (config.has /\ os.closes = <<>>) => diag[1].fmt = SocketFmt
       /\ (config.has /\ os.closes # <<>>) => diag[1].fmt = BindFmt
  /\ ReadFailed => Len(diag) = 1 /\ diag[1].tag = "error" /\ diag[1].fmt = ReadFmt
  /\ (Received /\ Len(packet) # 1) =>
       Len(diag) = 1 /\ diag[1].tag = "warning" /\ diag[1].fmt = SizeFmt
  /\ (Received /\ Len(packet) = 1 /\ Signed8(packet[1]) \notin {0, 1, 2, 3}) =>
       Len(diag) = 1 /\ diag[1].tag = "warning" /\ diag[1].fmt = ContentsFmt

\* C8's case: main returned after a failed bind, with its one error line
C8_Witness == pc = "exit" /\ Len(diag) = 1 /\ diag[1].fmt = BindFmt

\* the command line is exactly one argument that is a decimal port number
AllDigits(t) == t # <<>> /\ \A k \in 1..Len(t) : IsDigit(t[k])
CmdLineOk == Len(argv) = 2 /\ AllDigits(argv[2]) /\ DecValue(argv[2]) <= PortMax

\* C9: unless the command line is exactly one argument that parses fully as an
\* unsigned 16-bit port, main returns a failure status and no socket is ever
\* constructed, bound or read; whenever main returns it returns the failure
\* status, with the "info" line never emitted and no read made; and the loop
\* is entered only with a socket that was created and bound.
C9_FailBeforeSocketWork ==
  /\ ~CmdLineOk =>
       /\ pc \in {"main", "exit"}
       /\ os = OsInit
       /\ \A i \in DOMAIN socks : socks[i].life = "unborn"
       /\ nreads = 0
  /\ pc = "exit" => status = EXIT_FAILURE /\ nreads = 0 /\ "info" \notin stderr
  /\ pc # "exit" => status = -1
  /\ ("info" \in stderr \/ nreads > 0 \/ pc \in {"run", "awaiting", "terminated"}) =>
       \E i \in DOMAIN socks : socks[i].life = "live" /\ socks[i].fd \in os.bound

\* C9's case: main returned after a failed socket creation
C9_Witness == pc = "exit" /\ Len(diag) = 1 /\ diag[1].fmt = SocketFmt /\ status = EXIT_FAILURE

\* the decimal string of a port: digits without a superfluous leading zero
IsPortString(t) == AllDigits(t) /\ (Len(t) > 1 => t[1] # "0") /\ DecValue(t) <= PortMax

\* C10: once parse_command_line has returned: if the single argument is the
\* decimal string of a port p in 0..65535, the result is config{p}; if the
\* argument count is not one, or the argument is empty, holds a character that
\* is no digit, or has a decimal value above 65535, there is no result.
C10_ParseCommandLine ==
  pc # "main" =>
    /\ (Len(argv) = 2 /\ IsPortString(argv[2])) =>
         /\ config.has
         /\ config.val \in 0..PortMax
         /\ ToDecimal(config.val) = argv[2]
         /\ pc = "create_socket"
    /\ (Len(argv) # 2 \/ ~AllDigits(argv[2]) \/ DecValue(argv[2]) > PortMax) =>
         /\ ~config.has
         /\ pc = "exit"

\* C10's case: the largest port was parsed
C10_Witness ==
  /\ pc = "create_socket" /\ Len(argv) = 2 /\ argv[2] = <<"6", "5", "5", "3", "5">>
  /\ config = [has |-> TRUE, val |-> PortMax]

\* C11: the outcome of a loop iteration (the stdout line, the diagnostic, the
\* message, continue or terminate, defined behaviour or not) is a function of
\* what that iteration was given, the datagram and the result of its read:
\* every later iteration of a run that is given what the first iteration was
\* given has the outcome the first iteration had, whatever datagrams came in
\* between. The first iteration has no predecessor, so that the outcome after
\* any two histories is the same.
C11_OutcomeOfInputAlone ==
  (first.set /\ nreads >= 2 /\ ThisInput = first.input) => Outcome = first.outcome

\* C11's case: the datagram of the first iteration came again after a different one
C11_Witness ==
  /\ first.set /\ first.mixed /\ nreads >= 2
  /\ ThisInput = first.input /\ packet = <<3>> /\ out = <<"zebra">>

\* the last call was made within the contract of acme::socket
CallInContract == lastcall.op # "none" /\ ~breach

Checks(what) == {a \in asserted : a.what = what}

\* C12 as stated: the buffer handed to socket::read holds exactly one payload
\* record (1 byte), and so no read returns more than one byte.
C12_AsStated ==
  nreads > 0 =>
    /\ Len(buffer) = destination_size
    /\ unsanitized.has => Len(unsanitized.val) <= destination_size

\* C12: in every loop iteration the buffer handed to socket::read has a
\* capacity of max_buffer_size = 2 bytes, one more than the wire size of the
\* payload record; a read returns the first min(L, 2) bytes of a datagram of
\* L bytes, so it returns two bytes, more than one record's worth, for every
\* datagram longer than the record, and never more than two.
C12_CapacityIsRecordPlusOne ==
  nreads > 0 =>
    /\ Len(buffer) = destination_size + 1
    /\ unsanitized.has =>
         /\ Len(unsanitized.val) = Minimum(Len(packet), destination_size + 1)
         /\ Len(packet) > destination_size => Len(unsanitized.val) = destination_size + 1

\* C12's case: a read returned two bytes
C12_Witness == Received /\ Len(packet) = 2 /\ Len(unsanitized.val) = 2 /\ Len(buffer) = 2

\* C14: on every path of main the condition of every ACME_ASSERT(!errno) that
\* is evaluated is true: at entry to socket::bind, at entry to every
\* socket::read of the loop, and in the destructor of every open instance that
\* is destroyed. After a failed read errno stays set, the process is
\* terminated, and no destructor and no further check runs.
C14_ErrnoClearAtEveryCheck ==
  /\ [](\A a \in Checks("!errno") : a.held)
  /\ []((pc = "terminated" /\ errno # 0) => Checks("!errno") = {Check("read", "!errno", TRUE)})
  /\ [][(pc = "terminated" /\ errno # 0) => UNCHANGED vars]_vars

\* C14's case: bind failed, create_socket reset errno, and the destructor of the
\* open local socket found errno clear
C14_Witness ==
  /\ pc = "exit" /\ Len(diag) = 1 /\ diag[1].fmt = BindFmt /\ diag[1].nums[2] # 0
  /\ Check("bind", "!errno", TRUE) \in asserted
  /\ Check("~socket", "!errno", TRUE) \in asserted

\* C15: a message exists only after a one-byte packet whose signed value is
\* 0, 1, 2 or 3, and the message is that value; process_message is called with
\* such a message only, so that its ACME_ASSERT holds whenever it is evaluated
\* and the line it prints is the entry of the name table at the message's index.
C15_OnlyFourVariants ==
  /\ message.has =>
       /\ Received /\ Len(unsanitized.val) = 1
       /\ message.val = Signed8(unsanitized.val[1])
       /\ message.val \in 0..3
       /\ Check("process_message", "m.a is an animal", TRUE) \in asserted
       /\ out = <<animals[message.val + 1]>>
  /\ \A a \in asserted : a.at = "process_message" => a.held /\ message.has

\* C15's case: process_message was called with zebra, the last variant
C15_Witness ==
  /\ message = Some(zebra) /\ out = <<"zebra">>
  /\ Check("process_message", "m.a is an animal", TRUE) \in asserted

\* C16: the wrong-size warning carries expected = 1 and actual = the number of
\* bytes the read returned, the smaller of the datagram's length and the
\* buffer's capacity: 0 for an empty datagram, 2 for a datagram of two bytes,
\* and the capacity, 2, for every longer datagram.
C16_WrongSizeNumbers ==
  (Received /\ Len(packet) # 1) =>
    LET L == Len(packet)
        actual == IF L = 0 THEN 0 ELSE IF L = 2 THEN 2 ELSE Len(buffer) IN
    /\ actual = Len(unsanitized.val)
    /\ actual = Minimum(L, Len(buffer))
    /\ diag = <<[tag |-> "warning", fmt |-> SizeFmt, nums |-> <<1, actual>>, text |-> <<>>]>>

\* C16's case: a datagram of three bytes was reported with actual = 2
C16_Witness ==
  /\ Received /\ Len(packet) = 3
  /\ Len(diag) = 1 /\ diag[1].fmt = SizeFmt /\ diag[1].nums = <<1, 2>>

\* C17: on every path of main, socket::bind and socket::read are called only on
\* an instance whose open() is true. bind is called on the local socket of
\* create_socket, after ::socket succeeded; the instance read in run holds the
\* handle that ::socket created and ::bind bound, which reached it by the moves
\* local -> optional -> parameter, the local and the optional holding no handle
\* any more.
C17_CalledOnOpenInstance ==
  /\ \A a \in Checks("open()") : a.held
  /\ Check("bind", "open()", TRUE) \in asserted =>
       /\ Len(os.closes) = 1
       /\ pc = "run" => socks["opt"].fd \in os.bound /\ ~socket_open(World, "local")
  /\ pc = "awaiting" =>
       /\ socket_open(World, "param")
       /\ socks["param"].fd \in os.bound
       /\ os.fdtab[socks["param"].fd] = 1
       /\ os.closes = <<0>>
       /\ ~socket_open(World, "local") /\ ~socket_open(World, "opt")
  /\ Check("read", "open()", TRUE) \in asserted =>
       /\ socks["param"].fd \in os.bound
       /\ os.fdtab[socks["param"].fd] = 1

\* C17's case: a read in run on the parameter, which holds the bound handle
C17_Witness ==
  /\ Received /\ pc = "awaiting"
  /\ Check("read", "open()", TRUE) \in asserted
  /\ socks["param"].fd \in os.bound

============================================================================
